---- MODULE Spec2Model ----
(***************************************************************************)
(* GameDevScheduler persistence layer (src-tauri/src/database.rs).         *)
(*                                                                         *)
(* The store is the four SQLite tables of init_db.  Every repository       *)
(* operation is a closure run by with_db under the process-wide mutex DB;  *)
(* the compound operations (init_default_categories, export_data,          *)
(* import_data) are sequences of such closures, each with its own lock     *)
(* acquisition.  Callers are the threads of the command layer (lib.rs).    *)
(*                                                                         *)
(* Abstractions:                                                           *)
(*  - Uuid::new_v4() is a value never generated before (counter nextId).   *)
(*  - Utc::now().to_rfc3339() is the instant it denotes, a non-decreasing  *)
(*    natural number that may repeat.                                      *)
(*  - init_db never issues PRAGMA foreign_keys: whether SQLite enforces    *)
(*    the declared FOREIGN KEY clauses is the default the linked library   *)
(*    was compiled with (SQLITE_DEFAULT_FOREIGN_KEYS), so foreign_keys is  *)
(*    chosen once, at Init, and never changes.                             *)
(*  - serde_json text is modelled at the level of the parsed Value.        *)
(*  - once_cell::sync::Lazy runs its initialiser in the first caller that  *)
(*    dereferences it while the others wait; an initialiser that panics    *)
(*    leaves the cell without a value and without an initialiser, so that  *)
(*    every later dereference panics.                                      *)
(***************************************************************************)
EXTENDS Integers, Sequences, FiniteSets, TLC

VARIABLES
  foreign_keys,  \* whether the linked SQLite enforces FOREIGN KEY clauses
  teams,         \* table teams
  members,       \* table members
  categories,    \* table categories
  tasks,         \* table tasks
  nextId,        \* number of the next Uuid::new_v4()
  clock,         \* the last value read from Utc::now()
  lock,          \* holder of the mutex DB; 0 when free
  pc,            \* per caller: "idle", "acquire" (in DB.lock()), "body" (in f(&conn))
  call,          \* per caller: the command in progress (or the last one)
  prim,          \* per caller: the with_db closure in progress
  ret,           \* per caller: the value the last command returned
  calls,         \* number of commands issued so far
  DB,            \* the Lazy cell of the static DB, and who runs its initialiser
  init_db_runs,  \* number of times init_db has been entered
  schema         \* the statements of init_db's batch applied to the store file

vars == <<foreign_keys, teams, members, categories, tasks, nextId, clock,
          lock, pc, call, prim, ret, calls, DB, init_db_runs, schema>>

(***************************************************************************)
(* Bounds                                                                  *)
(***************************************************************************)
MaxCalls == 4        \* commands issued in one behaviour (Spec)
MaxClock == 1        \* Utc::now() stops advancing here

Callers == {1, 2}

I32Max == 2147483647

None == "<none>"     \* Option::None / SQL NULL
Missing == "0"       \* an identifier that names no row of any table

\* a generator that hands out the same identifier every time
same_uuid(n) == ToString(1)

uuid(n) == ToString(n)

(***************************************************************************)
(* Caller-supplied payloads                                                *)
(***************************************************************************)
TeamNames == {"Alpha"}
NewTeamNames == {"Beta"}

MemberPayloads ==
  { [name |-> "Ann", role |-> "leader", color |-> "#AA0000"],
    [name |-> "Bob", role |-> "member", color |-> "#00BB00"] }

UpdateMemberPayloads ==
  { [name |-> "Cy", role |-> "member", color |-> "#0C0C0C"] }

CategoryPayloads ==
  { [name |-> "Art", color |-> "#0000CC"],
    [name |-> "Code", color |-> "#DD00DD"] }

UpdateCategoryPayloads ==
  { [name |-> "Art2", color |-> "#0000CD", order_index |-> 5],
    [name |-> "Code", color |-> "#DD00DD", order_index |-> -1],
    [name |-> "Max", color |-> "#EEEEEE", order_index |-> I32Max] }

TaskPayloads ==
  { [title |-> "Design", description |-> "d1", start_date |-> "2024-01-10",
     end_date |-> "2024-01-20", status |-> "in_progress"],
    [title |-> "Build", description |-> "", start_date |-> "2024-01-05",
     end_date |-> "2024-02-01", status |-> "completed"] }

UpdateTaskPayloads ==
  { [title |-> "Ship", description |-> "d3", start_date |-> "2024-01-01",
     end_date |-> "2024-03-01", status |-> "not_started"] }

DefaultCategories ==
  << <<"Proposal", "#FF6B6B">>,
     <<"Draft", "#4ECDC4">>,
     <<"Wireframe", "#45B7D1">>,
     <<"UI Instruction", "#96CEB4">>,
     <<"VFX Instruction", "#FFEAA7">>,
     <<"Sound Instruction", "#DDA0DD">>,
     <<"DM/VO", "#98D8C8">>,
     <<"Server", "#F7DC6F">>,
     <<"Client", "#BB8FCE">>,
     <<"QA", "#85C1E9">> >>

(***************************************************************************)
(* Results                                                                 *)
(***************************************************************************)
Ok(v) == [ok |-> TRUE, val |-> v]
Err(m) == [ok |-> FALSE, val |-> m]
Unit == "()"
NoRet == [ok |-> TRUE, val |-> "<pending>"]

(***************************************************************************)
(* The store as one value                                                  *)
(***************************************************************************)
Db == [teams |-> teams, members |-> members, categories |-> categories,
       tasks |-> tasks]

Ids(rows) == {r.id : r \in rows}
OfTeam(rows, team_id) == {r \in rows : r.team_id = team_id}

(***************************************************************************)
(* SQL statements against the schema of init_db.  Each takes the store and *)
(* yields [ok, db, val]; a failed statement leaves the store as it was.    *)
(***************************************************************************)
SqlOk(db, v) == [ok |-> TRUE, db |-> db, val |-> v]
SqlErr(db, m) == [ok |-> FALSE, db |-> db, val |-> m]

PkFailed == "UNIQUE constraint failed"
FkFailed == "FOREIGN KEY constraint failed"
OutOfRange == "Integer out of range"
NoRows == "Query returned no rows"

\* FOREIGN KEY (member_id) ... ON DELETE SET NULL, FOREIGN KEY (category_id) ... ON DELETE SET NULL
SetNullRefs(rows, mids, cids) ==
  { [t EXCEPT !.member_id = IF @ \in mids THEN None ELSE @,
              !.category_id = IF @ \in cids THEN None ELSE @] : t \in rows }

\* INSERT INTO teams (id, name, created_at)
InsertTeam(db, row) ==
  IF row.id \in Ids(db.teams) THEN SqlErr(db, PkFailed)
  ELSE SqlOk([db EXCEPT !.teams = @ \cup {row}], Unit)

\* an INSERT into a members table with UNIQUE (team_id, name)
InsertMemberUniqueName(fk, db, row) ==
  IF \E m \in db.members : m.team_id = row.team_id /\ m.name = row.name
  THEN SqlErr(db, PkFailed)
  ELSE SqlOk([db EXCEPT !.members = @ \cup {row}], Unit)

\* INSERT INTO members (...); FOREIGN KEY (team_id) REFERENCES teams(id)
InsertMember(fk, db, row) ==
  IF row.id \in Ids(db.members) THEN SqlErr(db, PkFailed)
  ELSE IF fk /\ row.team_id \notin Ids(db.teams) THEN SqlErr(db, FkFailed)
  ELSE SqlOk([db EXCEPT !.members = @ \cup {row}], Unit)

\* INSERT INTO categories (...); FOREIGN KEY (team_id) REFERENCES teams(id)
InsertCategory(fk, db, row) ==
  IF row.id \in Ids(db.categories) THEN SqlErr(db, PkFailed)
  ELSE IF fk /\ row.team_id \notin Ids(db.teams) THEN SqlErr(db, FkFailed)
  ELSE SqlOk([db EXCEPT !.categories = @ \cup {row}], Unit)

\* the three FOREIGN KEY clauses of tasks, checked on INSERT and UPDATE
TaskRefsOk(db, team_id, member_id, category_id) ==
  /\ team_id \in Ids(db.teams)
  /\ member_id = None \/ member_id \in Ids(db.members)
  /\ category_id = None \/ category_id \in Ids(db.categories)

\* INSERT INTO tasks (...)
InsertTask(fk, db, row) ==
  IF row.id \in Ids(db.tasks) THEN SqlErr(db, PkFailed)
  ELSE IF fk /\ ~TaskRefsOk(db, row.team_id, row.member_id, row.category_id)
  THEN SqlErr(db, FkFailed)
  ELSE SqlOk([db EXCEPT !.tasks = @ \cup {row}], Unit)

\* DELETE FROM teams WHERE id = ?1, with ON DELETE CASCADE to members,
\* categories and tasks, and ON DELETE SET NULL from the cascaded members
\* and categories to the tasks that stay
DeleteTeam(fk, db, id) ==
  IF ~fk THEN SqlOk([db EXCEPT !.teams = {t \in @ : t.id # id}], Unit)
  ELSE LET gone == {t \in db.teams : t.id = id}
           tids == Ids(gone)
           dm == {m \in db.members : m.team_id \in tids}
           dc == {c \in db.categories : c.team_id \in tids}
           dt == {t \in db.tasks : t.team_id \in tids}
       IN SqlOk([teams |-> db.teams \ gone,
                 members |-> db.members \ dm,
                 categories |-> db.categories \ dc,
                 tasks |-> SetNullRefs(db.tasks \ dt, Ids(dm), Ids(dc))], Unit)

\* DELETE FROM members WHERE id = ?1
DeleteMember(fk, db, id) ==
  LET gone == {m \in db.members : m.id = id}
  IN SqlOk([db EXCEPT !.members = @ \ gone,
                      !.tasks = IF fk THEN SetNullRefs(@, Ids(gone), {}) ELSE @],
           Unit)

\* DELETE FROM categories WHERE id = ?1
DeleteCategory(fk, db, id) ==
  LET gone == {c \in db.categories : c.id = id}
  IN SqlOk([db EXCEPT !.categories = @ \ gone,
                      !.tasks = IF fk THEN SetNullRefs(@, {}, Ids(gone)) ELSE @],
           Unit)

\* DELETE FROM tasks WHERE id = ?1
DeleteTask(db, id) ==
  SqlOk([db EXCEPT !.tasks = {t \in @ : t.id # id}], Unit)

\* DELETE FROM tasks WHERE team_id = ?1
DeleteTasksOfTeam(db, team_id) ==
  SqlOk([db EXCEPT !.tasks = @ \ OfTeam(@, team_id)], Unit)

\* DELETE FROM categories WHERE team_id = ?1
DeleteCategoriesOfTeam(fk, db, team_id) ==
  LET gone == OfTeam(db.categories, team_id)
  IN SqlOk([db EXCEPT !.categories = @ \ gone,
                      !.tasks = IF fk THEN SetNullRefs(@, {}, Ids(gone)) ELSE @],
           Unit)

\* DELETE FROM members, with the WHERE clause left out
DeleteMembersOfAnyTeam(fk, db, team_id) ==
  LET gone == db.members
  IN SqlOk([db EXCEPT !.members = @ \ gone,
                      !.tasks = IF fk THEN SetNullRefs(@, Ids(gone), {}) ELSE @],
           Unit)

\* DELETE FROM members WHERE team_id = ?1
DeleteMembersOfTeam(fk, db, team_id) ==
  LET gone == OfTeam(db.members, team_id)
  IN SqlOk([db EXCEPT !.members = @ \ gone,
                      !.tasks = IF fk THEN SetNullRefs(@, Ids(gone), {}) ELSE @],
           Unit)

\* UPDATE teams SET name = ?1 WHERE id = ?2
UpdateTeam(db, id, name) ==
  SqlOk([db EXCEPT !.teams =
           {IF t.id = id THEN [t EXCEPT !.name = name] ELSE t : t \in @}], Unit)

\* UPDATE members SET name = ?1, role = ?2, color = ?3 WHERE id = ?4
UpdateMember(db, data) ==
  SqlOk([db EXCEPT !.members =
           {IF m.id = data.id
            THEN [m EXCEPT !.name = data.name, !.role = data.role,
                           !.color = data.color]
            ELSE m : m \in @}], Unit)

\* UPDATE categories SET name = ?1, color = ?2, order_index = ?3 WHERE id = ?4
UpdateCategory(db, data) ==
  SqlOk([db EXCEPT !.categories =
           {IF c.id = data.id
            THEN [c EXCEPT !.name = data.name, !.color = data.color,
                           !.order_index = data.order_index]
            ELSE c : c \in @}], Unit)

\* an UPDATE of tasks that also sets created_at = ?8
UpdateTaskAndCreatedAt(fk, db, data, now) ==
  SqlOk([db EXCEPT !.tasks =
           {IF t.id = data.id
            THEN [t EXCEPT !.member_id = data.member_id,
                           !.category_id = data.category_id,
                           !.title = data.title,
                           !.description = data.description,
                           !.start_date = data.start_date,
                           !.end_date = data.end_date,
                           !.status = data.status,
                           !.created_at = now,
                           !.updated_at = now]
            ELSE t : t \in @}], Unit)

\* an UPDATE of tasks that reports an error when it matches no row
UpdateTaskOrNoRows(fk, db, data, now) ==
  IF data.id \notin Ids(db.tasks) THEN SqlErr(db, NoRows)
  ELSE SqlOk([db EXCEPT !.tasks =
                {IF t.id = data.id
                 THEN [t EXCEPT !.member_id = data.member_id,
                                !.category_id = data.category_id,
                                !.title = data.title,
                                !.description = data.description,
                                !.start_date = data.start_date,
                                !.end_date = data.end_date,
                                !.status = data.status,
                                !.updated_at = now]
                 ELSE t : t \in @}], Unit)

\* UPDATE tasks SET member_id = ?1, ..., updated_at = ?8 WHERE id = ?9
UpdateTask(fk, db, data, now) ==
  LET hit == {t \in db.tasks : t.id = data.id}
  IN IF fk /\ \E t \in hit :
                ~TaskRefsOk(db, t.team_id, data.member_id, data.category_id)
     THEN SqlErr(db, FkFailed)
     ELSE SqlOk([db EXCEPT !.tasks =
                   {IF t.id = data.id
                    THEN [t EXCEPT !.member_id = data.member_id,
                                   !.category_id = data.category_id,
                                   !.title = data.title,
                                   !.description = data.description,
                                   !.start_date = data.start_date,
                                   !.end_date = data.end_date,
                                   !.status = data.status,
                                   !.updated_at = now]
                    ELSE t : t \in @}], Unit)

\* the maximum taken over every team: the WHERE clause forgotten
MaxOrderIndexAnyTeam(db, team_id) ==
  LET idx == {c.order_index : c \in db.categories}
  IN IF idx = {} THEN -1 ELSE CHOOSE m \in idx : \A k \in idx : k <= m

\* COALESCE(MAX(order_index), -1) over the categories of one team
MaxOrderIndex(db, team_id) ==
  LET idx == {c.order_index : c \in OfTeam(db.categories, team_id)}
  IN IF idx = {} THEN -1 ELSE CHOOSE m \in idx : \A k \in idx : k <= m

\* SELECT COALESCE(MAX(order_index), -1) + 1 ..., read by row.get(0) into an
\* i32: SQLite adds in 64 bits and rusqlite refuses an integer outside the
\* i32 range, which the sum is exactly when the maximum is i32::MAX
NextOrderIndex(db, team_id) ==
  LET m == MaxOrderIndex(db, team_id)
  IN IF m >= I32Max THEN SqlErr(db, OutOfRange) ELSE SqlOk(db, m + 1)

(***************************************************************************)
(* ORDER BY: every sequence of the rows with non-decreasing key; rows with *)
(* equal keys come in an order SQL leaves open.                            *)
(***************************************************************************)
\* the TEXT values of start_date in the model, in SQLite's BINARY collation order
TextOrder == <<"", "2024-01-01", "2024-01-05", "2024-01-10">>
TextRank(s) == CHOOSE i \in 1..Len(TextOrder) : TextOrder[i] = s

RECURSIVE OrderBy(_)
OrderBy(keyed) ==
  IF keyed = {} THEN {<< >>}
  ELSE LET first == {x \in keyed : \A y \in keyed : x.k <= y.k}
       IN UNION { {<<x.r>> \o rest : rest \in OrderBy(keyed \ {x})} : x \in first }

\* SELECT ... FROM teams ORDER BY created_at
SelectTeams(db) == OrderBy({[k |-> t.created_at, r |-> t] : t \in db.teams})

\* SELECT ... FROM members WHERE team_id = ?1 ORDER BY created_at
SelectMembers(db, team_id) ==
  OrderBy({[k |-> m.created_at, r |-> m] : m \in OfTeam(db.members, team_id)})

\* SELECT ... FROM categories WHERE team_id = ?1 ORDER BY order_index
SelectCategories(db, team_id) ==
  OrderBy({[k |-> c.order_index, r |-> c] : c \in OfTeam(db.categories, team_id)})

\* SELECT ... FROM tasks WHERE team_id = ?1 ORDER BY created_at
SelectTasksByCreatedAt(db, team_id) ==
  OrderBy({[k |-> t.created_at, r |-> t] : t \in OfTeam(db.tasks, team_id)})

\* SELECT ... FROM tasks WHERE team_id = ?1 ORDER BY start_date
SelectTasks(db, team_id) ==
  OrderBy({[k |-> TextRank(t.start_date), r |-> t] : t \in OfTeam(db.tasks, team_id)})

\* a team query that answers a team without name when no row matches
SelectTeamOrBlank(db, team_id) ==
  LET hit == {t \in db.teams : t.id = team_id}
  IN IF hit = {} THEN SqlOk(db, [id |-> team_id, name |-> "", created_at |-> 0])
     ELSE SqlOk(db, CHOOSE t \in hit : TRUE)

\* SELECT id, name, created_at FROM teams WHERE id = ?1 (query_row)
SelectTeam(db, team_id) ==
  LET hit == {t \in db.teams : t.id = team_id}
  IN IF hit = {} THEN SqlErr(db, NoRows) ELSE SqlOk(db, CHOOSE t \in hit : TRUE)

(***************************************************************************)
(* serde_json values.  A scalar is [t, s, n]; an entry of an array is a    *)
(* record of scalars, a key the entry lacks being "absent" (an entry that  *)
(* is no object at all answers every get() like an entry lacking every     *)
(* key).  A document text either parses to a Value or does not.            *)
(***************************************************************************)
JStr(x) == [t |-> "string", s |-> x, n |-> 0]
JNum(k) == [t |-> "number", s |-> "", n |-> k]
JNull == [t |-> "null", s |-> "", n |-> 0]
JAbsent == [t |-> "absent", s |-> "", n |-> 0]

JArray(items) == [kind |-> "array", items |-> items]
JNoArray(kind) == [kind |-> kind, items |-> << >>]

\* Option<String> as serde serializes it
JOpt(x) == IF x = None THEN JNull ELSE JStr(x)

\* DateTime<Utc>::to_rfc3339 of an instant
to_rfc3339(t) == ToString(t)

\* #[derive(Serialize)] of the four entities
TeamJson(t) ==
  [id |-> JStr(t.id), name |-> JStr(t.name),
   created_at |-> JStr(to_rfc3339(t.created_at))]

MemberJson(m) ==
  [id |-> JStr(m.id), team_id |-> JStr(m.team_id), name |-> JStr(m.name),
   role |-> JStr(m.role), color |-> JStr(m.color),
   created_at |-> JStr(to_rfc3339(m.created_at))]

CategoryJson(c) ==
  [id |-> JStr(c.id), team_id |-> JStr(c.team_id), name |-> JStr(c.name),
   color |-> JStr(c.color), order_index |-> JNum(c.order_index),
   created_at |-> JStr(to_rfc3339(c.created_at))]

TaskJson(t) ==
  [id |-> JStr(t.id), team_id |-> JStr(t.team_id),
   member_id |-> JOpt(t.member_id), category_id |-> JOpt(t.category_id),
   title |-> JStr(t.title), description |-> JStr(t.description),
   start_date |-> JStr(t.start_date), end_date |-> JStr(t.end_date),
   status |-> JStr(t.status),
   created_at |-> JStr(to_rfc3339(t.created_at)),
   updated_at |-> JStr(to_rfc3339(t.updated_at))]

MapSeq(f(_), s) == [i \in 1..Len(s) |-> f(s[i])]

\* serde_json::json!({ "team": .., "members": .., "categories": .., "tasks": .., "exported_at": .. })
ExportValue(team, ms, cs, ts, now) ==
  [kind |-> "object",
   team |-> TeamJson(team),
   members |-> JArray(MapSeq(MemberJson, ms)),
   categories |-> JArray(MapSeq(CategoryJson, cs)),
   tasks |-> JArray(MapSeq(TaskJson, ts)),
   exported_at |-> JStr(to_rfc3339(now))]

\* serde_json::to_string_pretty, and serde_json::from_str, its inverse on
\* the texts it produces
to_string_pretty(value) == [parses |-> TRUE, value |-> value]
NotJson == "expected value at line 1 column 1"
from_str(text) == IF text.parses THEN Ok(text.value) ELSE Err(NotJson)

\* .as_str().unwrap_or("") whatever the field's own default
StrOrEmpty(v, default) == IF v.t = "string" THEN v.s ELSE ""

\* v.get(key).and_then(|v| v.as_str()).unwrap_or(default)
StrOr(v, default) == IF v.t = "string" THEN v.s ELSE default

\* data.get(key).and_then(|v| v.as_array()): the items, or none
HasArray(data, field) == data.kind = "object" /\ field.kind = "array"

(***************************************************************************)
(* Document texts a caller may hand to import_data, besides a text that    *)
(* export_data returned to it.                                             *)
(***************************************************************************)
NoTeamJson == [id |-> JAbsent, name |-> JAbsent, created_at |-> JAbsent]

ValueOf(kind, ms, cs, ts) ==
  [kind |-> kind, team |-> NoTeamJson, members |-> ms, categories |-> cs,
   tasks |-> ts, exported_at |-> JAbsent]

\* not JSON at all
Garbage ==
  [parses |-> FALSE,
   value |-> ValueOf("null", JNoArray("absent"), JNoArray("absent"), JNoArray("absent"))]

\* 42
BareNumber ==
  to_string_pretty(ValueOf("number", JNoArray("absent"), JNoArray("absent"),
                           JNoArray("absent")))

\* {}
EmptyObject ==
  to_string_pretty(ValueOf("object", JNoArray("absent"), JNoArray("absent"),
                           JNoArray("absent")))

\* {"members": [{"team_id": "1", "name": "Zed", "color": 7}], "categories": "none",
\*  "tasks": [{"team_id": "1", "member_id": "1", "category_id": "2", "title": "Plan",
\*             "start_date": "2024-01-05", "end_date": 3}]}
Partial ==
  to_string_pretty(ValueOf("object",
    JArray(<< [id |-> JAbsent, team_id |-> JStr(uuid(1)), name |-> JStr("Zed"),
               role |-> JAbsent, color |-> JNum(7), created_at |-> JAbsent] >>),
    JNoArray("string"),
    JArray(<< [id |-> JAbsent, team_id |-> JStr(uuid(1)),
               member_id |-> JStr(uuid(1)), category_id |-> JStr(uuid(2)),
               title |-> JStr("Plan"), description |-> JAbsent,
               start_date |-> JStr("2024-01-05"), end_date |-> JNum(3),
               status |-> JAbsent, created_at |-> JAbsent,
               updated_at |-> JAbsent] >>)))

\* {"categories": [{"name": "Art"}, {"name": "Code", "color": "#00FF00"}],
\*  "tasks": [{"title": "Plan", "start_date": "2024-01-05", "end_date": "2024-01-10"}]}
TwoCategories ==
  to_string_pretty(ValueOf("object",
    JNoArray("absent"),
    JArray(<< [id |-> JAbsent, team_id |-> JAbsent, name |-> JStr("Art"),
               color |-> JAbsent, order_index |-> JAbsent, created_at |-> JAbsent],
              [id |-> JAbsent, team_id |-> JAbsent, name |-> JStr("Code"),
               color |-> JStr("#00FF00"), order_index |-> JAbsent,
               created_at |-> JAbsent] >>),
    JArray(<< [id |-> JAbsent, team_id |-> JAbsent,
               member_id |-> JAbsent, category_id |-> JAbsent,
               title |-> JStr("Plan"), description |-> JAbsent,
               start_date |-> JStr("2024-01-05"), end_date |-> JStr("2024-01-10"),
               status |-> JAbsent, created_at |-> JAbsent,
               updated_at |-> JAbsent] >>)))

\* an entry that is no object, or an object without any of the keys
NoFields ==
  [id |-> JAbsent, team_id |-> JAbsent, member_id |-> JAbsent,
   category_id |-> JAbsent, name |-> JAbsent, role |-> JAbsent, color |-> JAbsent,
   order_index |-> JAbsent, title |-> JAbsent, description |-> JAbsent,
   start_date |-> JAbsent, end_date |-> JAbsent, status |-> JAbsent,
   created_at |-> JAbsent, updated_at |-> JAbsent]

\* {"members": [{}, {"name": "Zed", "role": "lead", "color": "#123456"}],
\*  "categories": [7, {"name": "Ops", "color": "#00FF00"}],
\*  "tasks": [null, {"title": "Plan", "description": "d", "start_date": "2024-01-05",
\*                   "end_date": "2024-01-10", "status": "done"}]}
Sparse ==
  to_string_pretty(ValueOf("object",
    JArray(<< NoFields,
              [NoFields EXCEPT !.name = JStr("Zed"), !.role = JStr("lead"),
                               !.color = JStr("#123456")] >>),
    JArray(<< NoFields,
              [NoFields EXCEPT !.name = JStr("Ops"), !.color = JStr("#00FF00")] >>),
    JArray(<< NoFields,
              [NoFields EXCEPT !.title = JStr("Plan"), !.description = JStr("d"),
                               !.start_date = JStr("2024-01-05"),
                               !.end_date = JStr("2024-01-10"),
                               !.status = JStr("done")] >>)))

HandWritten == {Garbage, BareNumber, EmptyObject, Partial}

(***************************************************************************)
(* Callers.  A command (lib.rs) runs one repository function; a repository *)
(* function runs one or more with_db closures.  call[p] is the repository  *)
(* function, prim[p] the closure.                                          *)
(***************************************************************************)
NoCall == [op |-> "none"]
NoPrim == [op |-> "none"]

Closure(op, arg) == [op |-> op, arg |-> arg, stmt |-> 1, id |-> None, now |-> 0,
                     order_index |-> 0]

\* what a caller does next: return to the command layer, or enter with_db again
Done(c, r) == [pc |-> "idle", call |-> c, prim |-> NoPrim, ret |-> r]
Go(c, pr) == [pc |-> "acquire", call |-> c, prim |-> pr, ret |-> NoRet]

\* the defaults taken last to first
DefaultCategoryReversed(team_id, i) ==
  [team_id |-> team_id,
   name |-> DefaultCategories[Len(DefaultCategories) + 1 - i][1],
   color |-> DefaultCategories[Len(DefaultCategories) + 1 - i][2]]

\* init_default_categories: the i-th create_category of the loop
DefaultCategory(team_id, i) ==
  [team_id |-> team_id, name |-> DefaultCategories[i][1],
   color |-> DefaultCategories[i][2]]

init_default_categories_begin(team_id) ==
  Go([op |-> "init_default_categories", arg |-> team_id, i |-> 1, acc |-> << >>],
     Closure("create_category", DefaultCategory(team_id, 1)))

\* for (name, color) in defaults { let cat = create_category(..)?; categories.push(cat); }
init_default_categories_next(c, r) ==
  IF ~r.ok THEN Done(c, r)
  ELSE LET acc == Append(c.acc, r.val)
       IN IF c.i = Len(DefaultCategories) THEN Done([c EXCEPT !.acc = acc], Ok(acc))
          ELSE Go([c EXCEPT !.i = @ + 1, !.acc = acc],
                  Closure("create_category", DefaultCategory(c.arg, c.i + 1)))

export_data_begin(team_id) ==
  Go([op |-> "export_data", arg |-> team_id, stage |-> "team", team |-> NoCall,
      members |-> << >>, categories |-> << >>],
     Closure("select_team", team_id))

\* export_data after each of its four with_db closures; now is the clock
\* read of "exported_at"
export_data_next(c, r, now) ==
  IF ~r.ok THEN Done(c, r)
  ELSE CASE c.stage = "team" ->
              Go([c EXCEPT !.stage = "members", !.team = r.val],
                 Closure("get_members", c.arg))
         [] c.stage = "members" ->
              Go([c EXCEPT !.stage = "categories", !.members = r.val],
                 Closure("get_categories", c.arg))
         [] c.stage = "categories" ->
              Go([c EXCEPT !.stage = "tasks", !.categories = r.val],
                 Closure("get_tasks", c.arg))
         [] OTHER ->
              Done(c, Ok(to_string_pretty(
                           ExportValue(c.team, c.members, c.categories, r.val, now))))

\* import_data keeping the references of the task entries
import_tasks_keeping_refs(c, i) ==
  IF HasArray(c.data, c.data.tasks) /\ i <= Len(c.data.tasks.items)
  THEN LET e == c.data.tasks.items[i]
       IN Go([c EXCEPT !.stage = "tasks", !.i = i],
             Closure("create_task",
                     [team_id |-> c.arg,
                      member_id |-> StrOr(e.member_id, None),
                      category_id |-> StrOr(e.category_id, None),
                      title |-> StrOr(e.title, ""),
                      description |-> StrOr(e.description, ""),
                      start_date |-> StrOr(e.start_date, ""),
                      end_date |-> StrOr(e.end_date, ""),
                      status |-> StrOr(e.status, "not_started")]))
  ELSE Done(c, Ok(Unit))

\* import_data: the entries still to create, from the i-th task on
import_tasks_from(c, i) ==
  IF HasArray(c.data, c.data.tasks) /\ i <= Len(c.data.tasks.items)
  THEN LET e == c.data.tasks.items[i]
       IN Go([c EXCEPT !.stage = "tasks", !.i = i],
             Closure("create_task",
                     [team_id |-> c.arg,
                      member_id |-> None,
                      category_id |-> None,
                      title |-> StrOr(e.title, ""),
                      description |-> StrOr(e.description, ""),
                      start_date |-> StrOr(e.start_date, ""),
                      end_date |-> StrOr(e.end_date, ""),
                      status |-> StrOr(e.status, "not_started")]))
  ELSE Done(c, Ok(Unit))

import_categories_from(c, i) ==
  IF HasArray(c.data, c.data.categories) /\ i <= Len(c.data.categories.items)
  THEN LET e == c.data.categories.items[i]
       IN Go([c EXCEPT !.stage = "categories", !.i = i],
             Closure("create_category",
                     [team_id |-> c.arg,
                      name |-> StrOr(e.name, ""),
                      color |-> StrOr(e.color, "#4A90D9")]))
  ELSE import_tasks_from(c, 1)

import_members_from(c, i) ==
  IF HasArray(c.data, c.data.members) /\ i <= Len(c.data.members.items)
  THEN LET e == c.data.members.items[i]
       IN Go([c EXCEPT !.stage = "members", !.i = i],
             Closure("create_member",
                     [team_id |-> c.arg,
                      name |-> StrOr(e.name, ""),
                      role |-> StrOr(e.role, ""),
                      color |-> StrOr(e.color, "#4A90D9")]))
  ELSE import_categories_from(c, 1)

ImportFrame(team_id, json_data, data) ==
  [op |-> "import_data", arg |-> team_id, json_data |-> json_data, data |-> data,
   stage |-> "delete", i |-> 0]

\* import_data deleting the team's rows before it looks at the parse result
import_data_delete_first(team_id, json_data) ==
  Go(ImportFrame(team_id, json_data, json_data.value),
     Closure("import_delete", team_id))

\* import_data refusing a document whose top level is not an object
import_data_objects_only(team_id, json_data) ==
  LET data == from_str(json_data)
  IN IF ~data.ok THEN Done(ImportFrame(team_id, json_data, json_data.value), data)
     ELSE IF data.val.kind # "object"
     THEN Done(ImportFrame(team_id, json_data, data.val), Err("not an object"))
     ELSE Go(ImportFrame(team_id, json_data, data.val),
             Closure("import_delete", team_id))

\* let data = serde_json::from_str(json_data)?; with_db(delete the team's rows)
import_data_begin(team_id, json_data) ==
  LET data == from_str(json_data)
  IN IF ~data.ok THEN Done(ImportFrame(team_id, json_data, json_data.value), data)
     ELSE Go(ImportFrame(team_id, json_data, data.val),
             Closure("import_delete", team_id))

\* import_data going on to the next entry when a closure returned an error
import_data_ignoring_errors(c, r) ==
  CASE c.stage = "delete" -> import_members_from(c, 1)
    [] c.stage = "members" -> import_members_from(c, c.i + 1)
    [] c.stage = "categories" -> import_categories_from(c, c.i + 1)
    [] OTHER -> import_tasks_from(c, c.i + 1)

\* import_data after each of its with_db closures (every one is followed by ?)
import_data_next(c, r) ==
  IF ~r.ok THEN Done(c, r)
  ELSE CASE c.stage = "delete" -> import_members_from(c, 1)
         [] c.stage = "members" -> import_members_from(c, c.i + 1)
         [] c.stage = "categories" -> import_categories_from(c, c.i + 1)
         [] OTHER -> import_tasks_from(c, c.i + 1)

\* where the repository function goes when a with_db closure has returned r
After(c, r, now) ==
  CASE c.op = "init_default_categories" -> init_default_categories_next(c, r)
    [] c.op = "export_data" -> export_data_next(c, r, now)
    [] c.op = "import_data" -> import_data_next(c, r)
    [] OTHER -> Done(c, r)

(***************************************************************************)
(* The Lazy cell of DB, and the batch of init_db.                          *)
(***************************************************************************)
\* the statements of execute_batch, in order: four tables, five indexes
Batch ==
  << "teams", "members", "categories", "tasks", "idx_tasks_team",
     "idx_tasks_member", "idx_tasks_category", "idx_members_team",
     "idx_categories_team" >>

\* the cell before its first dereference, while init_db runs in caller p
\* (stmt 0: Connection::open, stmt i: the i-th statement of the batch), with
\* its Mutex<Connection>, and after its initialiser has panicked
LazyUninit == [state |-> "uninit", by |-> 0, stmt |-> 0]
LazyRunning(p, stmt) == [state |-> "running", by |-> p, stmt |-> stmt]
LazyReady == [state |-> "ready", by |-> 0, stmt |-> 0]
LazyPoisoned == [state |-> "poisoned", by |-> 0, stmt |-> 0]

(***************************************************************************)
(* Initial state: an empty store (CREATE TABLE IF NOT EXISTS on a new      *)
(* file), no caller in a command.  Start is the process before anything    *)
(* has touched DB; Init is the process once setup's init_db_public has     *)
(* returned.                                                               *)
(***************************************************************************)
Start ==
  /\ foreign_keys \in BOOLEAN
  /\ teams = {}
  /\ members = {}
  /\ categories = {}
  /\ tasks = {}
  /\ nextId = 1
  /\ clock = 0
  /\ lock = 0
  /\ pc = [p \in Callers |-> "idle"]
  /\ call = [p \in Callers |-> NoCall]
  /\ prim = [p \in Callers |-> NoPrim]
  /\ ret = [p \in Callers |-> NoRet]
  /\ calls = 0
  /\ DB = LazyUninit
  /\ init_db_runs = 0
  /\ schema \in {{}, {Batch[i] : i \in DOMAIN Batch}}

Init ==
  /\ foreign_keys \in BOOLEAN
  /\ teams = {}
  /\ members = {}
  /\ categories = {}
  /\ tasks = {}
  /\ nextId = 1
  /\ clock = 0
  /\ lock = 0
  /\ pc = [p \in Callers |-> "idle"]
  /\ call = [p \in Callers |-> NoCall]
  /\ prim = [p \in Callers |-> NoPrim]
  /\ ret = [p \in Callers |-> NoRet]
  /\ calls = 0
  /\ DB = LazyReady
  /\ init_db_runs = 1
  /\ schema = {Batch[i] : i \in DOMAIN Batch}

\* time passes: the next Utc::now() reads a later instant
Tick ==
  /\ clock < MaxClock
  /\ clock' = clock + 1
  /\ UNCHANGED <<foreign_keys, teams, members, categories, tasks, nextId, lock,
                 pc, call, prim, ret, calls, DB, init_db_runs, schema>>

Enter(p, nx) ==
  /\ pc' = [pc EXCEPT ![p] = nx.pc]
  /\ call' = [call EXCEPT ![p] = nx.call]
  /\ prim' = [prim EXCEPT ![p] = nx.prim]
  /\ ret' = [ret EXCEPT ![p] = nx.ret]

\* a command of lib.rs enters its repository function
Command(p, nx) ==
  /\ pc[p] = "idle"
  /\ Enter(p, nx)
  /\ calls' = calls + 1
  /\ UNCHANGED <<foreign_keys, teams, members, categories, tasks, nextId, clock, lock,
                 DB, init_db_runs, schema>>

Plain(op, arg) == Go([op |-> op, arg |-> arg], Closure(op, arg))

\* identifiers a caller can know of: those of the rows, those the rows
\* refer to, and one that names nothing
TeamArgs ==
  Ids(teams) \cup {m.team_id : m \in members} \cup {c.team_id : c \in categories}
    \cup {t.team_id : t \in tasks} \cup {Missing}
MemberArgs == Ids(members) \cup {Missing}
CategoryArgs == Ids(categories) \cup {Missing}
TaskArgs == Ids(tasks) \cup {Missing}

cmd_create_team(p) ==
  \E name \in TeamNames : Command(p, Plain("create_team", [name |-> name]))

cmd_get_teams(p) == Command(p, Plain("get_teams", Unit))

cmd_update_team(p) ==
  \E id \in TeamArgs, name \in NewTeamNames :
    Command(p, Plain("update_team", [id |-> id, name |-> name]))

cmd_delete_team(p) ==
  \E id \in TeamArgs : Command(p, Plain("delete_team", id))

cmd_create_member(p) ==
  \E team_id \in TeamArgs, d \in MemberPayloads :
    Command(p, Plain("create_member",
                     [team_id |-> team_id, name |-> d.name, role |-> d.role,
                      color |-> d.color]))

cmd_get_members(p) ==
  \E team_id \in TeamArgs : Command(p, Plain("get_members", team_id))

cmd_update_member(p) ==
  \E id \in MemberArgs, d \in UpdateMemberPayloads :
    Command(p, Plain("update_member",
                     [id |-> id, name |-> d.name, role |-> d.role, color |-> d.color]))

cmd_delete_member(p) ==
  \E id \in MemberArgs : Command(p, Plain("delete_member", id))

cmd_create_category(p) ==
  \E team_id \in TeamArgs, d \in CategoryPayloads :
    Command(p, Plain("create_category",
                     [team_id |-> team_id, name |-> d.name, color |-> d.color]))

cmd_get_categories(p) ==
  \E team_id \in TeamArgs : Command(p, Plain("get_categories", team_id))

cmd_update_category(p) ==
  \E id \in CategoryArgs, d \in UpdateCategoryPayloads :
    Command(p, Plain("update_category",
                     [id |-> id, name |-> d.name, color |-> d.color,
                      order_index |-> d.order_index]))

cmd_delete_category(p) ==
  \E id \in CategoryArgs : Command(p, Plain("delete_category", id))

cmd_init_default_categories(p) ==
  \E team_id \in TeamArgs : Command(p, init_default_categories_begin(team_id))

cmd_create_task(p) ==
  \E team_id \in TeamArgs, member_id \in MemberArgs \cup {None},
     category_id \in CategoryArgs \cup {None}, d \in TaskPayloads :
    Command(p, Plain("create_task",
                     [team_id |-> team_id, member_id |-> member_id,
                      category_id |-> category_id, title |-> d.title,
                      description |-> d.description, start_date |-> d.start_date,
                      end_date |-> d.end_date, status |-> d.status]))

cmd_get_tasks(p) ==
  \E team_id \in TeamArgs : Command(p, Plain("get_tasks", team_id))

cmd_update_task(p) ==
  \E id \in TaskArgs, member_id \in MemberArgs \cup {None},
     category_id \in CategoryArgs \cup {None}, d \in UpdateTaskPayloads :
    Command(p, Plain("update_task",
                     [id |-> id, member_id |-> member_id,
                      category_id |-> category_id, title |-> d.title,
                      description |-> d.description, start_date |-> d.start_date,
                      end_date |-> d.end_date, status |-> d.status]))

cmd_delete_task(p) ==
  \E id \in TaskArgs : Command(p, Plain("delete_task", id))

cmd_export_data(p) ==
  \E team_id \in TeamArgs : Command(p, export_data_begin(team_id))

\* the document export_data has just returned to this caller, if any
Exported(p) ==
  IF call[p].op = "export_data" /\ ret[p].ok /\ pc[p] = "idle" THEN {ret[p].val} ELSE {}

cmd_import_data(p, documents) ==
  \E team_id \in TeamArgs, json_data \in documents :
    Command(p, import_data_begin(team_id, json_data))

(***************************************************************************)
(* with_db: DB.lock(), then the closure f(&conn), then the guard is        *)
(* dropped as with_db returns.                                             *)
(***************************************************************************)
\* a lock that grants the guard to every caller at once
MutexAlwaysFree == TRUE

\* std::sync::Mutex::lock grants the guard only while nobody holds it
MutexFree == lock = 0

\* a guard that import_data and export_data keep from one closure to the next
GuardKeptAcrossClosures(p, r) ==
  IF call[p].op \in {"import_data", "export_data"} /\ r.ok THEN p ELSE 0

\* the MutexGuard `conn` goes out of scope at the end of with_db, whatever f returned
GuardDropped(p, r) == 0

\* a cell that a caller initialises although another caller is doing so
FirstOrConcurrentAccess == DB.state \in {"uninit", "running"}

\* Lazy::force finds the cell without a value and with its initialiser
FirstAccess == DB.state = "uninit"

\* DB.lock() dereferences DB: the first caller to do so enters the
\* initialiser, that is init_db
force(p) ==
  /\ pc[p] = "acquire"
  /\ FirstAccess
  /\ DB' = LazyRunning(p, 0)
  /\ init_db_runs' = init_db_runs + 1
  /\ pc' = [pc EXCEPT ![p] = "init_db"]
  /\ UNCHANGED <<foreign_keys, teams, members, categories, tasks, nextId, clock,
                 lock, call, prim, ret, calls, schema>>

\* init_db in the caller that forced the cell: Connection::open(path)?,
\* then the statements of execute_batch(..)?; Ok(conn) gives the cell its
\* value, an Err makes .expect("Failed to initialize database") panic
init_db(p) ==
  /\ pc[p] = "init_db"
  /\ DB = LazyRunning(p, DB.stmt)
  /\ \E ok \in BOOLEAN :
       IF ~ok
       THEN /\ DB' = LazyPoisoned
            /\ pc' = [pc EXCEPT ![p] = "panicked"]
            /\ schema' = schema
       ELSE IF DB.stmt = 0
       THEN /\ DB' = LazyRunning(p, 1)
            /\ UNCHANGED <<pc, schema>>
       ELSE /\ schema' = schema \cup {Batch[DB.stmt]}
            /\ IF DB.stmt < Len(Batch)
               THEN DB' = LazyRunning(p, DB.stmt + 1) /\ pc' = pc
               ELSE DB' = LazyReady /\ pc' = [pc EXCEPT ![p] = "acquire"]
  /\ UNCHANGED <<foreign_keys, teams, members, categories, tasks, nextId, clock,
                 lock, call, prim, ret, calls, init_db_runs>>

\* a dereference of the cell after its initialiser has panicked panics
poisoned(p) ==
  /\ pc[p] = "acquire"
  /\ DB = LazyPoisoned
  /\ pc' = [pc EXCEPT ![p] = "panicked"]
  /\ UNCHANGED <<foreign_keys, teams, members, categories, tasks, nextId, clock,
                 lock, call, prim, ret, calls, DB, init_db_runs, schema>>

with_db(p) ==
  /\ pc[p] = "acquire"
  /\ DB = LazyReady
  /\ MutexFree
  /\ lock' = p
  /\ pc' = [pc EXCEPT ![p] = "body"]
  /\ UNCHANGED <<foreign_keys, teams, members, categories, tasks, nextId, clock,
                 call, prim, ret, calls, DB, init_db_runs, schema>>

InBody(p, op) == pc[p] = "body" /\ prim[p].op = op

SetDb(db) ==
  /\ teams' = db.teams
  /\ members' = db.members
  /\ categories' = db.categories
  /\ tasks' = db.tasks

\* the closure returns r: with_db drops the guard and the repository function goes on
Complete(p, db, r, id) ==
  /\ SetDb(db)
  /\ nextId' = id
  /\ lock' = GuardDropped(p, r)
  /\ Enter(p, After(call[p], r, clock))
  /\ UNCHANGED <<foreign_keys, clock, calls, DB, init_db_runs, schema>>

\* a closure that gives the guard back between two of its statements
ContinueUnlocked(p, db, pr, id) ==
  /\ SetDb(db)
  /\ nextId' = id
  /\ prim' = [prim EXCEPT ![p] = pr]
  /\ lock' = 0
  /\ UNCHANGED <<foreign_keys, clock, pc, call, ret, calls, DB, init_db_runs, schema>>

\* the closure has run one statement and goes on to its next one
Continue(p, db, pr, id) ==
  /\ SetDb(db)
  /\ nextId' = id
  /\ prim' = [prim EXCEPT ![p] = pr]
  /\ UNCHANGED <<foreign_keys, clock, lock, pc, call, ret, calls, DB, init_db_runs,
                 schema>>

\* conn.execute(..)?; Ok(v)
Outcome(q, v) == IF q.ok THEN Ok(v) ELSE Err(q.val)

create_team(p) ==
  /\ InBody(p, "create_team")
  /\ LET row == [id |-> uuid(nextId), name |-> prim[p].arg.name, created_at |-> clock]
         q == InsertTeam(Db, row)
     IN Complete(p, q.db, Outcome(q, row), nextId + 1)

get_teams(p) ==
  /\ InBody(p, "get_teams")
  /\ \E rows \in SelectTeams(Db) : Complete(p, Db, Ok(rows), nextId)

delete_team(p) ==
  /\ InBody(p, "delete_team")
  /\ LET q == DeleteTeam(foreign_keys, Db, prim[p].arg)
     IN Complete(p, q.db, Outcome(q, Unit), nextId)

update_team(p) ==
  /\ InBody(p, "update_team")
  /\ LET q == UpdateTeam(Db, prim[p].arg.id, prim[p].arg.name)
     IN Complete(p, q.db, Outcome(q, Unit), nextId)

create_member(p) ==
  /\ InBody(p, "create_member")
  /\ LET data == prim[p].arg
         row == [id |-> uuid(nextId), team_id |-> data.team_id, name |-> data.name,
                 role |-> data.role, color |-> data.color, created_at |-> clock]
         q == InsertMember(foreign_keys, Db, row)
     IN Complete(p, q.db, Outcome(q, row), nextId + 1)

get_members(p) ==
  /\ InBody(p, "get_members")
  /\ \E rows \in SelectMembers(Db, prim[p].arg) : Complete(p, Db, Ok(rows), nextId)

update_member(p) ==
  /\ InBody(p, "update_member")
  /\ LET q == UpdateMember(Db, prim[p].arg)
     IN Complete(p, q.db, Outcome(q, Unit), nextId)

delete_member(p) ==
  /\ InBody(p, "delete_member")
  /\ LET q == DeleteMember(foreign_keys, Db, prim[p].arg)
     IN Complete(p, q.db, Outcome(q, Unit), nextId)

\* two statements under one guard: the SELECT of the next order_index, then the INSERT
create_category(p) ==
  /\ InBody(p, "create_category")
  /\ LET data == prim[p].arg
     IN IF prim[p].stmt = 1
        THEN LET q == NextOrderIndex(Db, data.team_id)
             IN IF ~q.ok
                THEN Complete(p, Db, Err(q.val), nextId + 1)
                ELSE Continue(p, Db,
                              [prim[p] EXCEPT !.stmt = 2, !.id = uuid(nextId),
                                              !.now = clock, !.order_index = q.val],
                              nextId + 1)
        ELSE LET row == [id |-> prim[p].id, team_id |-> data.team_id,
                         name |-> data.name, color |-> data.color,
                         order_index |-> prim[p].order_index,
                         created_at |-> prim[p].now]
                 q == InsertCategory(foreign_keys, Db, row)
             IN Complete(p, q.db, Outcome(q, row), nextId)

get_categories(p) ==
  /\ InBody(p, "get_categories")
  /\ \E rows \in SelectCategories(Db, prim[p].arg) : Complete(p, Db, Ok(rows), nextId)

update_category(p) ==
  /\ InBody(p, "update_category")
  /\ LET q == UpdateCategory(Db, prim[p].arg)
     IN Complete(p, q.db, Outcome(q, Unit), nextId)

delete_category(p) ==
  /\ InBody(p, "delete_category")
  /\ LET q == DeleteCategory(foreign_keys, Db, prim[p].arg)
     IN Complete(p, q.db, Outcome(q, Unit), nextId)

create_task(p) ==
  /\ InBody(p, "create_task")
  /\ LET data == prim[p].arg
         row == [id |-> uuid(nextId), team_id |-> data.team_id,
                 member_id |-> data.member_id, category_id |-> data.category_id,
                 title |-> data.title, description |-> data.description,
                 start_date |-> data.start_date, end_date |-> data.end_date,
                 status |-> data.status, created_at |-> clock, updated_at |-> clock]
         q == InsertTask(foreign_keys, Db, row)
     IN Complete(p, q.db, Outcome(q, row), nextId + 1)

get_tasks(p) ==
  /\ InBody(p, "get_tasks")
  /\ \E rows \in SelectTasks(Db, prim[p].arg) : Complete(p, Db, Ok(rows), nextId)

update_task(p) ==
  /\ InBody(p, "update_task")
  /\ LET q == UpdateTask(foreign_keys, Db, prim[p].arg, clock)
     IN Complete(p, q.db, Outcome(q, Unit), nextId)

delete_task(p) ==
  /\ InBody(p, "delete_task")
  /\ LET q == DeleteTask(Db, prim[p].arg)
     IN Complete(p, q.db, Outcome(q, Unit), nextId)

\* export_data's first closure: query_row on teams
select_team(p) ==
  /\ InBody(p, "select_team")
  /\ LET q == SelectTeam(Db, prim[p].arg)
     IN Complete(p, Db, Outcome(q, q.val), nextId)

\* import_data's first closure: three DELETE statements under one guard
import_delete(p) ==
  /\ InBody(p, "import_delete")
  /\ LET team_id == prim[p].arg
     IN CASE prim[p].stmt = 1 ->
               Continue(p, DeleteTasksOfTeam(Db, team_id).db,
                        [prim[p] EXCEPT !.stmt = 2], nextId)
          [] prim[p].stmt = 2 ->
               Continue(p, DeleteCategoriesOfTeam(foreign_keys, Db, team_id).db,
                        [prim[p] EXCEPT !.stmt = 3], nextId)
          [] OTHER ->
               Complete(p, DeleteMembersOfTeam(foreign_keys, Db, team_id).db,
                        Ok(Unit), nextId)

\* setup (lib.rs) calls init_db_public, which takes the guard of DB and
\* drops it without executing a statement
setup(p) == Command(p, Plain("init_db_public", Unit))

init_db_public(p) ==
  /\ InBody(p, "init_db_public")
  /\ Complete(p, Db, Ok(Unit), nextId)

(***************************************************************************)
(* Specifications.  Each issues the commands its claims are about, one     *)
(* caller at a time unless it says otherwise, up to a number of commands.  *)
(***************************************************************************)
\* referential actions: creates, reassignment and deletes
RefCommands(p) ==
  \/ cmd_create_team(p) \/ cmd_create_member(p) \/ cmd_create_category(p)
  \/ cmd_create_task(p) \/ cmd_update_task(p)
  \/ cmd_delete_team(p) \/ cmd_delete_member(p) \/ cmd_delete_category(p)

RefSteps(p) ==
  \/ with_db(p)
  \/ create_team(p) \/ create_member(p) \/ create_category(p)
  \/ create_task(p) \/ update_task(p)
  \/ delete_team(p) \/ delete_member(p) \/ delete_category(p)

Next ==
  \E p \in {1} : (calls < MaxCalls /\ RefCommands(p)) \/ RefSteps(p)

Spec == Init /\ [][Next]_vars

\* categories: creation, reordering and deletion
MaxCategoryCalls == 6

CategoryCommands(p) ==
  \/ cmd_create_team(p) \/ cmd_create_category(p) \/ cmd_update_category(p)
  \/ cmd_delete_category(p)

CategorySteps(p) ==
  \/ with_db(p)
  \/ create_team(p) \/ create_category(p) \/ update_category(p)
  \/ delete_category(p)

NextCategory ==
  \E p \in {1} : (calls < MaxCategoryCalls /\ CategoryCommands(p)) \/ CategorySteps(p)

SpecCategory == Init /\ [][NextCategory]_vars

\* default categories: seeding a team, next to single creations and deletions
MaxSeedCalls == 4

SeedCommands(p) ==
  \/ cmd_create_team(p) \/ cmd_create_category(p) \/ cmd_delete_category(p)
  \/ cmd_init_default_categories(p) \/ cmd_get_categories(p)

SeedSteps(p) ==
  \/ with_db(p)
  \/ create_team(p) \/ create_category(p) \/ delete_category(p)
  \/ get_categories(p)

NextSeed ==
  \E p \in {1} : (calls < MaxSeedCalls /\ SeedCommands(p)) \/ SeedSteps(p)

SpecSeed == Init /\ [][NextSeed]_vars

\* bulk transfer: export and import of a team next to the creations
MaxTransferCalls == 5

TransferCommands(p) ==
  \/ cmd_create_team(p) \/ cmd_create_member(p) \/ cmd_create_category(p)
  \/ cmd_update_category(p) \/ cmd_create_task(p)
  \/ cmd_export_data(p) \/ cmd_import_data(p, Exported(p))

TransferSteps(p) ==
  \/ with_db(p)
  \/ create_team(p) \/ create_member(p) \/ create_category(p)
  \/ update_category(p) \/ create_task(p)
  \/ select_team(p) \/ get_members(p) \/ get_categories(p) \/ get_tasks(p)
  \/ import_delete(p)

\* the identifiers the command passes name rows of the store
NamesRows(c) ==
  CASE c.op \in {"create_member", "create_category"} -> c.arg.team_id \in Ids(teams)
    [] c.op = "create_task" ->
         /\ c.arg.team_id \in Ids(teams)
         /\ c.arg.member_id \in Ids(members) \cup {None}
         /\ c.arg.category_id \in Ids(categories) \cup {None}
    [] c.op = "update_category" -> c.arg.id \in Ids(categories)
    [] c.op \in {"export_data", "import_data"} -> c.arg \in Ids(teams)
    [] OTHER -> TRUE

NextTransfer ==
  \E p \in {1} :
    \/ calls < MaxTransferCalls /\ TransferCommands(p) /\ NamesRows(call'[p])
    \/ TransferSteps(p)

SpecTransfer == Init /\ [][NextTransfer]_vars

(***************************************************************************)
(* Claims                                                                  *)
(***************************************************************************)
Returned(p, op) == pc[p] = "idle" /\ call[p].op = op
Succeeded(p, op) == Returned(p, op) /\ ret[p].ok

\* the step in which caller p's closure op returns
Returns(p, op) == InBody(p, op) /\ pc'[p] # "body"

\* the store after the step
DbAfter == [teams |-> teams', members |-> members', categories |-> categories',
            tasks |-> tasks']

\* C1: when delete_team(T) succeeds on an existing team T, what
\* get_members(T), get_categories(T) and get_tasks(T) select afterwards is
\* empty.
C1_DeleteTeamCascades ==
  [][\A p \in Callers :
       (Returns(p, "delete_team") /\ prim[p].arg \in Ids(teams) /\ ret'[p].ok) =>
         /\ SelectMembers(DbAfter, prim[p].arg) = {<< >>}
         /\ SelectCategories(DbAfter, prim[p].arg) = {<< >>}
         /\ SelectTasks(DbAfter, prim[p].arg) = {<< >>}]_vars

\* the task of `rows` with the identifier of t
SameTask(rows, t) == CHOOSE u \in rows : u.id = t.id

\* C2: delete_member(M) and delete_category(C) of an existing member or
\* category remove no task; a task that referred to M (to C) is left with
\* member_id (category_id) absent and nothing else changed, and every other
\* task is left as it was.
C2_DeleteSetsNull ==
  [][\A p \in Callers :
       /\ (Returns(p, "delete_member") /\ prim[p].arg \in Ids(members)) =>
            /\ Ids(tasks') = Ids(tasks)
            /\ \A t \in tasks :
                 SameTask(tasks', t) =
                   IF t.member_id = prim[p].arg THEN [t EXCEPT !.member_id = None]
                   ELSE t
       /\ (Returns(p, "delete_category") /\ prim[p].arg \in Ids(categories)) =>
            /\ Ids(tasks') = Ids(tasks)
            /\ \A t \in tasks :
                 SameTask(tasks', t) =
                   IF t.category_id = prim[p].arg
                   THEN [t EXCEPT !.category_id = None]
                   ELSE t]_vars

\* C3: every member, category and task names an existing team, and every
\* task's member_id and category_id is absent or names an existing member
\* or category.
C3_ReferentialIntegrity ==
  /\ \A m \in members : m.team_id \in Ids(teams)
  /\ \A c \in categories : c.team_id \in Ids(teams)
  /\ \A t \in tasks :
       /\ t.team_id \in Ids(teams)
       /\ t.member_id = None \/ t.member_id \in Ids(members)
       /\ t.category_id = None \/ t.category_id \in Ids(categories)

\* C4: a create_category(T, ..) that succeeds stores the row it returns,
\* whose order_index is one more than the largest order_index among the
\* other categories of team T, and 0 when T has no other category; the
\* categories of other teams play no part.
C4_OrderIndexIsTeamMaxPlusOne ==
  \A p \in Callers :
    Succeeded(p, "create_category") =>
      LET c == ret[p].val
          others == {d.order_index : d \in OfTeam(categories, call[p].arg.team_id) \ {c}}
      IN /\ c \in categories
         /\ c.team_id = call[p].arg.team_id
         /\ IF others = {} THEN c.order_index = 0
            ELSE /\ c.order_index - 1 \in others
                 /\ \A k \in others : k < c.order_index

\* C4 witness: a category created as the second of its team, with index 1,
\* while another team holds a category with a larger index
C4_Witness ==
  \E p \in Callers :
    /\ Succeeded(p, "create_category")
    /\ ret[p].val.order_index = 1
    /\ \E d \in categories :
         d.team_id # ret[p].val.team_id /\ d.order_index > 1
    /\ \E d \in categories :
         d.team_id = ret[p].val.team_id /\ d.order_index = 0

\* the elements of a sequence
Range(s) == {s[i] : i \in DOMAIN s}

\* C5: when init_default_categories(T) succeeds on a team that had no
\* category (with one caller: the team's categories are the rows the call
\* returns), it returns ten rows, stored as returned, the i-th with the i-th
\* name and colour of the fixed list and order_index i - 1, and the team has
\* no other category.
C5_DefaultCategories ==
  \A p \in Callers :
    (/\ Succeeded(p, "init_default_categories")
     /\ OfTeam(categories, call[p].arg) \subseteq Range(ret[p].val)) =>
      LET rows == ret[p].val
      IN /\ Len(rows) = 10
         /\ Cardinality(OfTeam(categories, call[p].arg)) = 10
         /\ \A i \in 1..Len(rows) :
              /\ rows[i] \in categories
              /\ rows[i].team_id = call[p].arg
              /\ rows[i].name = DefaultCategories[i][1]
              /\ rows[i].color = DefaultCategories[i][2]
              /\ rows[i].order_index = i - 1
         /\ rows[1].name = "Proposal" /\ rows[1].color = "#FF6B6B"
         /\ rows[10].name = "QA" /\ rows[10].color = "#85C1E9"

\* C5 witness: an existing team seeded while another team has a category
C5_Witness ==
  \E p \in Callers :
    /\ Succeeded(p, "init_default_categories")
    /\ call[p].arg \in Ids(teams)
    /\ OfTeam(categories, call[p].arg) = Range(ret[p].val)
    /\ Cardinality(OfTeam(categories, call[p].arg)) = 10
    /\ \E c \in categories : c.team_id # call[p].arg

(***************************************************************************)
(* Import of hand-written documents into a store of several teams.         *)
(***************************************************************************)
MaxImportCalls == 5

ImportCommands(p) ==
  \/ cmd_create_team(p) \/ cmd_create_member(p) \/ cmd_create_category(p)
  \/ cmd_create_task(p) \/ cmd_import_data(p, HandWritten)

ImportSteps(p) ==
  \/ with_db(p)
  \/ create_team(p) \/ create_member(p) \/ create_category(p) \/ create_task(p)
  \/ import_delete(p)

NextImport ==
  \E p \in {1} :
    \/ calls < MaxImportCalls /\ ImportCommands(p) /\ NamesRows(call'[p])
    \/ ImportSteps(p)

SpecImport == Init /\ [][NextImport]_vars

(***************************************************************************)
(* Two callers (two command threads of the GUI shell) on the one           *)
(* connection.                                                             *)
(***************************************************************************)
MaxLockCalls == 4

LockCommands(p) ==
  \/ cmd_create_team(p) \/ cmd_create_category(p) \/ cmd_get_categories(p)
  \/ cmd_import_data(p, {EmptyObject})

LockSteps(p) ==
  \/ with_db(p)
  \/ create_team(p) \/ create_category(p) \/ get_categories(p)
  \/ import_delete(p)

NextLock ==
  \E p \in Callers :
    \/ calls < MaxLockCalls /\ LockCommands(p)
    \/ LockSteps(p)

SpecLock == Init /\ [][NextLock]_vars

\* the rows and the entries carry the same values the same number of times
SameBag(rows, ofRow(_), entries, ofEntry(_)) ==
  \A x \in {ofRow(r) : r \in rows} \cup {ofEntry(entries[i]) : i \in DOMAIN entries} :
    Cardinality({r \in rows : ofRow(r) = x})
      = Cardinality({i \in DOMAIN entries : ofEntry(entries[i]) = x})

MemberFields(m) == <<m.name, m.role, m.color>>
MemberEntryFields(e) == <<e.name.s, e.role.s, e.color.s>>
CategoryFields(c) == <<c.name, c.color, c.order_index>>
CategoryEntryFields(e) == <<e.name.s, e.color.s, e.order_index.n>>
TaskFields(t) == <<t.title, t.description, t.start_date, t.end_date, t.status>>
TaskEntryFields(e) == <<e.title.s, e.description.s, e.start_date.s, e.end_date.s, e.status.s>>

\* caller p has imported into team T the document export_data(T) returned
RoundTrip(p) ==
  /\ Succeeded(p, "import_data")
  /\ call[p].data.team.id = JStr(call[p].arg)

\* C6: after import_data(T, export_data(T)) the members, categories and
\* tasks of T carry the exported values: member name/role/color, category
\* name/color/order_index, task title/description/start_date/end_date/status
\* (identifiers and timestamps are new, task member_id/category_id absent).
C6_RoundTrip ==
  \A p \in Callers :
    RoundTrip(p) =>
      LET T == call[p].arg
          doc == call[p].data
      IN /\ SameBag(OfTeam(members, T), MemberFields,
                    doc.members.items, MemberEntryFields)
         /\ SameBag(OfTeam(categories, T), CategoryFields,
                    doc.categories.items, CategoryEntryFields)
         /\ SameBag(OfTeam(tasks, T), TaskFields,
                    doc.tasks.items, TaskEntryFields)
         /\ \A t \in OfTeam(tasks, T) : t.member_id = None /\ t.category_id = None

\* caller p is inside import_data after the step, or has just returned from it
Importing(p) == call'[p].op = "import_data"

\* C7: import_data(T, doc) with a document that is not JSON returns an
\* error in the step that issues it, without entering with_db: no row of
\* the store is deleted or changed.
C7_UnparseableImportTouchesNothing ==
  [][\A p \in Callers :
       (Importing(p) /\ ~call'[p].json_data.parses) =>
         /\ DbAfter = Db
         /\ pc'[p] = "idle"
         /\ ~ret'[p].ok]_vars

C7_Witness ==
  \E p \in Callers :
    /\ Returned(p, "import_data")
    /\ ~call[p].json_data.parses
    /\ ~ret[p].ok
    /\ OfTeam(members, call[p].arg) # {}
    /\ OfTeam(tasks, call[p].arg) # {}

\* the rows that do not belong to team_id
NotOfTeam(rows, team_id) == rows \ OfTeam(rows, team_id)

\* C8 as stated: no step of import_data(T, doc) changes a Team row or a
\* member, category or task row of a team other than T.
C8_ImportTouchesOnlyItsTeam ==
  [][\A p \in Callers :
       Importing(p) =>
         LET T == call'[p].arg
         IN /\ teams' = teams
            /\ NotOfTeam(members', T) = NotOfTeam(members, T)
            /\ NotOfTeam(categories', T) = NotOfTeam(categories, T)
            /\ NotOfTeam(tasks', T) = NotOfTeam(tasks, T)]_vars

\* C8 amended: no step of import_data(T, doc) changes a Team row or a
\* member or category row of another team, and it neither deletes nor
\* creates a task of another team; such a task keeps every field except
\* that its member_id (category_id) becomes absent when it named a member
\* (category) of T that the step deleted.
C8_ImportTouchesOnlyItsTeamAndReferencesToIt ==
  [][\A p \in Callers :
       Importing(p) =>
         LET T == call'[p].arg
             deletedMembers == Ids(OfTeam(members, T)) \ Ids(members')
             deletedCategories == Ids(OfTeam(categories, T)) \ Ids(categories')
         IN /\ teams' = teams
            /\ NotOfTeam(members', T) = NotOfTeam(members, T)
            /\ NotOfTeam(categories', T) = NotOfTeam(categories, T)
            /\ Ids(NotOfTeam(tasks', T)) = Ids(NotOfTeam(tasks, T))
            /\ \A t \in NotOfTeam(tasks, T) :
                 LET u == SameTask(tasks', t)
                 IN /\ [u EXCEPT !.member_id = None, !.category_id = None]
                         = [t EXCEPT !.member_id = None, !.category_id = None]
                    /\ \/ u.member_id = t.member_id
                       \/ u.member_id = None /\ t.member_id \in deletedMembers
                    /\ \/ u.category_id = t.category_id
                       \/ u.category_id = None /\ t.category_id \in deletedCategories]_vars

\* an import into T of a document with member entries has succeeded while
\* another team has a member and a task
C8_Witness ==
  \E p \in Callers :
    /\ Succeeded(p, "import_data")
    /\ OfTeam(members, call[p].arg) # {}
    /\ NotOfTeam(members, call[p].arg) # {}
    /\ NotOfTeam(tasks, call[p].arg) # {}
    /\ \E i \in DOMAIN call[p].data.members.items :
         call[p].data.members.items[i].team_id # JStr(call[p].arg)

\* C9: every task a step of import_data creates has member_id and
\* category_id absent, and when import_data(T, doc) has returned success no
\* task of T names a member or a category.
C9_ImportedTasksHaveNoReferences ==
  [][\A p \in Callers :
       Importing(p) =>
         /\ \A t \in tasks' :
              t.id \notin Ids(tasks) => t.member_id = None /\ t.category_id = None
         /\ (pc'[p] = "idle" /\ ret'[p].ok) =>
              \A t \in OfTeam(tasks', call'[p].arg) :
                t.member_id = None /\ t.category_id = None]_vars

\* an import has created a task from an entry that carries a member_id
C9_Witness ==
  \E p \in Callers :
    /\ Succeeded(p, "import_data")
    /\ OfTeam(tasks, call[p].arg) # {}
    /\ call[p].data.tasks.kind = "array"
    /\ \E i \in DOMAIN call[p].data.tasks.items :
         /\ call[p].data.tasks.items[i].member_id.t = "string"
         /\ call[p].data.tasks.items[i].member_id.s \in Ids(members) \cup Ids(teams)

\* the callers that are executing statements on the connection
InWithDb == {p \in Callers : pc[p] = "body"}

\* exactly the caller inside a with_db body holds the lock, so there is at
\* most one
LockHeldByBody ==
  /\ \A p \in Callers : pc[p] = "body" <=> lock = p
  /\ Cardinality(InWithDb) <= 1

\* C10: at most one caller at a time executes statements on the
\* connection, and that caller holds the lock; while a caller is inside a
\* with_db body no other caller's step changes the store or takes the lock;
\* and a caller that returns from a repository operation, with Ok or with
\* Err, does not hold the lock.
C10_OneCallerAtATime ==
  [][/\ LockHeldByBody
     /\ LockHeldByBody'
     /\ \A p \in Callers :
          /\ (pc[p] = "body" /\ pc'[p] = "body" /\ prim'[p] = prim[p]) =>
               /\ DbAfter = Db
               /\ lock' = p
          /\ (pc[p] = "body" /\ lock' # p) => pc'[p] # "body"
          /\ pc'[p] = "idle" => lock' # p]_vars

\* a caller has returned Err from a with_db body and the other caller is
\* between the two statements of create_category, holding the lock
C10_Witness ==
  \E p, q \in Callers :
    /\ p # q
    /\ Returned(p, "create_category")
    /\ ~ret[p].ok
    /\ pc[q] = "body"
    /\ lock = q
    /\ prim[q].op = "create_category"
    /\ prim[q].stmt = 2

(***************************************************************************)
(* An export and an import of the same team by two callers.                *)
(***************************************************************************)
MaxTornCalls == 4

TornCommands(p) ==
  \/ cmd_create_team(p) \/ cmd_create_member(p)
  \/ cmd_export_data(p) \/ cmd_import_data(p, {Partial})

TornSteps(p) ==
  \/ with_db(p)
  \/ create_team(p) \/ create_member(p) \/ create_task(p)
  \/ select_team(p) \/ get_members(p) \/ get_categories(p) \/ get_tasks(p)
  \/ import_delete(p)

NextTorn ==
  \E p \in Callers :
    \/ calls < MaxTornCalls /\ TornCommands(p) /\ NamesRows(call'[p])
    \/ TornSteps(p)

SpecTorn == Init /\ [][NextTorn]_vars

\* C11: import_data and export_data take the lock once per closure and
\* give it up in between: whenever one of them leaves a with_db body to go
\* on to its next closure the lock is free, so another caller's closure can
\* run between the delete and the re-creates of an import and between the
\* four reads of an export; the export can then return a document that is
\* neither the team's content before the import nor its content after it.
C11_ImportAndExportAreNotIsolated ==
  [][\A p \in Callers :
       (/\ call[p].op \in {"import_data", "export_data"}
        /\ pc[p] = "body"
        /\ pc'[p] = "acquire") => lock' = 0]_vars

\* the identifiers of the entries of a JSON array
EntryIds(array) == {array.items[i].id.s : i \in DOMAIN array.items}

\* export_data(T) and import_data(T, doc) of two callers have both returned
\* success; the exported document lists a member that the import deleted
\* (so it is not the content after the import) and a task that the import
\* created (so it is not the content before the import)
C11_Witness ==
  \E p, q \in Callers :
    /\ p # q
    /\ Succeeded(p, "export_data")
    /\ Succeeded(q, "import_data")
    /\ call[p].arg = call[q].arg
    /\ LET doc == ret[p].val.value
       IN /\ EntryIds(doc.members) \ Ids(members) # {}
          /\ EntryIds(doc.tasks) \cap Ids(OfTeam(tasks, call[q].arg)) # {}

(***************************************************************************)
(* An import by one caller while another caller changes the team's rows.   *)
(***************************************************************************)
MaxPartialCalls == 4

PartialCommands(p) ==
  \/ cmd_create_team(p) \/ cmd_create_member(p) \/ cmd_update_category(p)
  \/ cmd_import_data(p, {TwoCategories})

PartialSteps(p) ==
  \/ with_db(p)
  \/ create_team(p) \/ create_member(p) \/ create_category(p) \/ create_task(p)
  \/ update_category(p) \/ import_delete(p)

NextPartial ==
  \E p \in Callers :
    \/ calls < MaxPartialCalls /\ PartialCommands(p) /\ NamesRows(call'[p])
    \/ PartialSteps(p)

SpecPartial == Init /\ [][NextPartial]_vars

\* caller p takes a step
Moves(p) == pc'[p] # pc[p] \/ prim'[p] # prim[p]

\* the statement caller p is about to execute in a create closure fails
StatementFails(p) ==
  LET data == prim[p].arg
  IN CASE prim[p].op = "create_member" ->
            foreign_keys /\ data.team_id \notin Ids(teams)
       [] prim[p].op = "create_category" ->
            IF prim[p].stmt = 1 THEN ~NextOrderIndex(Db, data.team_id).ok
            ELSE foreign_keys /\ data.team_id \notin Ids(teams)
       [] prim[p].op = "create_task" ->
            foreign_keys
              /\ ~TaskRefsOk(Db, data.team_id, data.member_id, data.category_id)
       [] OTHER -> FALSE

\* C12: when a statement of a create_member/create_category/create_task
\* that import_data runs fails, import_data returns that error in the same
\* step and the step changes no row: what was deleted stays deleted, what
\* was created stays created, and no later entry is created.
C12_FailedImportReturnsWithoutRollback ==
  [][\A p \in Callers :
       (/\ call[p].op = "import_data"
        /\ pc[p] = "body"
        /\ Moves(p)
        /\ StatementFails(p)) =>
          /\ pc'[p] = "idle"
          /\ ~ret'[p].ok
          /\ call'[p] = call[p]
          /\ DbAfter = Db]_vars

\* import_data(T, doc) has returned the error of its second create_category
\* (another caller had raised the first category's order_index to the i32
\* maximum): the first category of the document is in the store and the
\* document's task was not created
C12_Witness ==
  \E p \in Callers :
    /\ Returned(p, "import_data")
    /\ ~ret[p].ok
    /\ call[p].json_data.parses
    /\ call[p].stage = "categories"
    /\ call[p].i = 2
    /\ {c.name : c \in OfTeam(categories, call[p].arg)} = {"Art2"}
    /\ OfTeam(tasks, call[p].arg) = {}
    /\ Len(call[p].data.tasks.items) > 0
    /\ ret[p] = Err(OutOfRange)

(***************************************************************************)
(* Creates, updates and deletes of one caller while time passes.           *)
(***************************************************************************)
MaxEditCalls == 3

EditCommands(p) ==
  \/ cmd_create_team(p) \/ cmd_create_member(p) \/ cmd_create_category(p)
  \/ cmd_create_task(p)
  \/ cmd_update_team(p) \/ cmd_update_member(p) \/ cmd_update_category(p)
  \/ cmd_update_task(p)
  \/ cmd_delete_team(p) \/ cmd_delete_member(p) \/ cmd_delete_category(p)
  \/ cmd_delete_task(p)

EditSteps(p) ==
  \/ with_db(p)
  \/ create_team(p) \/ create_member(p) \/ create_category(p) \/ create_task(p)
  \/ update_team(p) \/ update_member(p) \/ update_category(p) \/ update_task(p)
  \/ delete_team(p) \/ delete_member(p) \/ delete_category(p) \/ delete_task(p)

UpdatesAndDeletes ==
  {"update_team", "update_member", "update_category", "update_task",
   "delete_team", "delete_member", "delete_category", "delete_task"}

NextEdit ==
  \/ Tick
  \/ \E p \in {1} :
       \/ /\ calls < MaxEditCalls
          /\ EditCommands(p)
          /\ call'[p].op \in UpdatesAndDeletes \/ NamesRows(call'[p])
       \/ EditSteps(p)

SpecEdit == Init /\ [][NextEdit]_vars

\* the table an update or delete closure works on
TableOf(op) ==
  CASE op \in {"update_team", "delete_team"} -> teams
    [] op \in {"update_member", "delete_member"} -> members
    [] op \in {"update_category", "delete_category"} -> categories
    [] OTHER -> tasks

\* the identifier an update or delete closure was given
IdOf(pr) ==
  IF pr.op \in {"delete_team", "delete_member", "delete_category", "delete_task"}
  THEN pr.arg ELSE pr.arg.id

\* C13: an update_* or delete_* given an identifier that matches no row of
\* its table returns Ok(()) and leaves every row of every table unchanged.
C13_NoMatchIsSilentSuccess ==
  [][\A p \in Callers :
       (/\ pc[p] = "body"
        /\ prim[p].op \in UpdatesAndDeletes
        /\ Moves(p)
        /\ IdOf(prim[p]) \notin Ids(TableOf(prim[p].op))) =>
          /\ pc'[p] = "idle"
          /\ ret'[p] = Ok(Unit)
          /\ DbAfter = Db]_vars

\* update_task of an identifier that matches no row has returned success
\* while the table holds a task
C13_Witness ==
  \E p \in Callers :
    /\ Succeeded(p, "update_task")
    /\ call[p].arg.id \notin Ids(tasks)
    /\ tasks # {}

(***************************************************************************)
(* Two callers creating rows at the same time.                             *)
(***************************************************************************)
MaxRaceCalls == 4

RaceCommands(p) ==
  \/ cmd_create_team(p) \/ cmd_create_member(p) \/ cmd_create_task(p)

RaceSteps(p) ==
  \/ with_db(p) \/ create_team(p) \/ create_member(p) \/ create_task(p)

NextRace ==
  \E p \in Callers :
    \/ calls < MaxRaceCalls /\ RaceCommands(p) /\ NamesRows(call'[p])
    \/ RaceSteps(p)

SpecRace == Init /\ [][NextRace]_vars

\* no two rows of the table have the same id
UniqueIds(rows) == \A r1, r2 \in rows : r1.id = r2.id => r1 = r2

\* C14: create_task calls of several callers on an existing team (naming
\* existing members and categories, or none) each succeed and store the row
\* they return, two callers' returned tasks have different identifiers, and
\* no two rows of a table share an id.
C14_ConcurrentCreatesGetDistinctIds ==
  /\ UniqueIds(teams) /\ UniqueIds(members) /\ UniqueIds(categories)
  /\ UniqueIds(tasks)
  /\ \A p \in Callers :
       (/\ Returned(p, "create_task")
        /\ TaskRefsOk(Db, call[p].arg.team_id, call[p].arg.member_id,
                      call[p].arg.category_id)) =>
          /\ ret[p].ok
          /\ ret[p].val \in tasks
  /\ \A p, q \in Callers :
       (p # q /\ Succeeded(p, "create_task") /\ Succeeded(q, "create_task")) =>
          ret[p].val.id # ret[q].val.id

\* both callers have returned from create_task on the same team, with
\* different identifiers
C14_Witness ==
  \E p, q \in Callers :
    /\ p # q
    /\ Succeeded(p, "create_task")
    /\ Succeeded(q, "create_task")
    /\ call[p].arg.team_id = call[q].arg.team_id
    /\ ret[p].val.id # ret[q].val.id
    /\ {ret[p].val, ret[q].val} \subseteq tasks

(***************************************************************************)
(* Lists after creates and updates, while time passes.                     *)
(***************************************************************************)
MaxListCalls == 4

ListCommands(p) ==
  \/ cmd_create_team(p) \/ cmd_create_member(p) \/ cmd_create_category(p)
  \/ cmd_create_task(p) \/ cmd_update_category(p) \/ cmd_update_task(p)
  \/ cmd_get_teams(p) \/ cmd_get_members(p) \/ cmd_get_categories(p)
  \/ cmd_get_tasks(p)

ListSteps(p) ==
  \/ with_db(p)
  \/ create_team(p) \/ create_member(p) \/ create_category(p) \/ create_task(p)
  \/ update_category(p) \/ update_task(p)
  \/ get_teams(p) \/ get_members(p) \/ get_categories(p) \/ get_tasks(p)

\* the command names rows of the store, tasks refer to no member or
\* category, and a list is asked of a team with rows
ListNamesRows(c) ==
  CASE c.op = "update_task" ->
         c.arg.id \in Ids(tasks) /\ c.arg.member_id = None /\ c.arg.category_id = None
    [] c.op = "create_task" ->
         c.arg.team_id \in Ids(teams) /\ c.arg.member_id = None
           /\ c.arg.category_id = None
    [] c.op = "get_members" -> OfTeam(members, c.arg) # {}
    [] c.op = "get_categories" -> OfTeam(categories, c.arg) # {}
    [] c.op = "get_tasks" -> OfTeam(tasks, c.arg) # {}
    [] OTHER -> NamesRows(c)

NextList ==
  \/ Tick
  \/ \E p \in {1} :
       \/ calls < MaxListCalls /\ ListCommands(p) /\ ListNamesRows(call'[p])
       \/ ListSteps(p)

SpecList == Init /\ [][NextList]_vars

\* the sequence lists each of the rows once
ListsExactly(s, rows) == Range(s) = rows /\ Len(s) = Cardinality(rows)

MaxCreateCalls == 4

CreateCommands(p) ==
  \/ cmd_create_team(p) \/ cmd_create_member(p) \/ cmd_create_category(p)
  \/ cmd_create_task(p) \/ cmd_update_category(p)
  \/ cmd_get_members(p) \/ cmd_get_categories(p) \/ cmd_get_tasks(p)

CreateSteps(p) ==
  \/ with_db(p)
  \/ create_team(p) \/ create_member(p) \/ create_category(p) \/ create_task(p)
  \/ update_category(p)
  \/ get_members(p) \/ get_categories(p) \/ get_tasks(p)

\* creates and lists name an existing team, update_category an existing category
OnExistingTeam(c) ==
  CASE c.op \in {"create_member", "create_category", "create_task"} ->
         c.arg.team_id \in Ids(teams)
    [] c.op = "update_category" -> c.arg.id \in Ids(categories)
    [] c.op \in {"get_members", "get_categories", "get_tasks"} -> c.arg \in Ids(teams)
    [] OTHER -> TRUE

NextCreate ==
  \E p \in {1} :
    \/ calls < MaxCreateCalls /\ CreateCommands(p) /\ OnExistingTeam(call'[p])
    \/ CreateSteps(p)

SpecCreate == Init /\ [][NextCreate]_vars

\* the closure of caller p returns Ok(row), the row is new and is the one
\* row the step adds to the table, and the other tables are unchanged
InsertsOne(p, table) ==
  /\ ret'[p].ok
  /\ ret'[p].val.id \notin Ids(Db[table]) \cup {None}
  /\ DbAfter = [Db EXCEPT ![table] = @ \cup {ret'[p].val}]

\* the returned row carries the fields the caller supplied
Echoes(row, data, fields) == \A f \in fields : row[f] = data[f]

MemberInput == {"team_id", "name", "role", "color"}
CategoryInput == {"team_id", "name", "color"}
TaskInput == {"team_id", "member_id", "category_id", "title", "description",
              "start_date", "end_date", "status"}

\* what C16 says of the create closure that returns in this step
CreateReturnsItsRow(p) ==
  /\ Returns(p, "create_member") =>
       /\ InsertsOne(p, "members")
       /\ Echoes(ret'[p].val, prim[p].arg, MemberInput)
  /\ Returns(p, "create_category") =>
       /\ InsertsOne(p, "categories")
       /\ Echoes(ret'[p].val, prim[p].arg, CategoryInput)
  /\ Returns(p, "create_task") =>
       /\ InsertsOne(p, "tasks")
       /\ Echoes(ret'[p].val, prim[p].arg, TaskInput)

\* what C16 says of the list closure that returns in this step
ListReturnsTheTeamsRows(p) ==
  /\ Returns(p, "get_members") =>
       ret'[p].ok /\ ListsExactly(ret'[p].val, OfTeam(members, prim[p].arg))
  /\ Returns(p, "get_categories") =>
       ret'[p].ok /\ ListsExactly(ret'[p].val, OfTeam(categories, prim[p].arg))
  /\ Returns(p, "get_tasks") =>
       ret'[p].ok /\ ListsExactly(ret'[p].val, OfTeam(tasks, prim[p].arg))

\* caller p is in a create closure whose team exists
CreatesOnExistingTeam(p) ==
  /\ pc[p] = "body"
  /\ prim[p].op \in {"create_member", "create_category", "create_task"}
  /\ prim[p].arg.team_id \in Ids(teams)

\* C16 as stated: every create_member, create_category and create_task on
\* an existing team adds exactly one row and returns it with the caller's
\* fields, and the lists of a team return exactly the team's rows.
C16_CreateInsertsOneRow ==
  [][\A p \in Callers :
       /\ CreatesOnExistingTeam(p) => CreateReturnsItsRow(p)
       /\ ListReturnsTheTeamsRows(p)]_vars

\* the create of caller p can be stored: a task names no member or category
\* that does not exist, and a category's next order_index fits an i32
Storable(p) ==
  /\ prim[p].op = "create_task" =>
       TaskRefsOk(Db, prim[p].arg.team_id, prim[p].arg.member_id,
                  prim[p].arg.category_id)
  /\ prim[p].op = "create_category" =>
       MaxOrderIndex(Db, prim[p].arg.team_id) < I32Max

\* C16 amended: every create_member on an existing team, every
\* create_category on an existing team whose largest order_index is below
\* the i32 maximum, and every create_task on an existing team whose
\* member_id and category_id are absent or name existing rows, adds exactly
\* one row and returns it with the caller's fields, whatever names the other
\* rows have; and the lists of a team return exactly the team's rows.
C16_StorableCreateInsertsOneRow ==
  [][\A p \in Callers :
       /\ (CreatesOnExistingTeam(p) /\ Storable(p)) => CreateReturnsItsRow(p)
       /\ ListReturnsTheTeamsRows(p)]_vars

\* get_members has returned two members of one team that have the same name
C16_Witness ==
  \E p \in Callers :
    /\ Succeeded(p, "get_members")
    /\ Len(ret[p].val) = 2
    /\ ret[p].val[1].name = ret[p].val[2].name
    /\ ret[p].val[1].id # ret[p].val[2].id
    /\ Range(ret[p].val) = OfTeam(members, call[p].arg)

\* the columns an update may change
Updatable(op) ==
  CASE op = "update_team" -> {"name"}
    [] op = "update_member" -> {"name", "role", "color"}
    [] op = "update_category" -> {"name", "color", "order_index"}
    [] OTHER -> {"member_id", "category_id", "title", "description",
                 "start_date", "end_date", "status", "updated_at"}

\* the row of `rows` with the identifier of r
SameRow(rows, r) == CHOOSE u \in rows : u.id = r.id

\* the name of the table an update works on
TableNameOf(op) ==
  CASE op = "update_team" -> "teams"
    [] op = "update_member" -> "members"
    [] op = "update_category" -> "categories"
    [] OTHER -> "tasks"

\* the step leaves the tables other than the one of op as they were, keeps
\* the identifiers of that table, and changes only updatable columns of the
\* row whose id is `id`
ChangesOnly(op, id) ==
  /\ \A table \in DOMAIN Db \ {TableNameOf(op)} : DbAfter[table] = Db[table]
  /\ LET before == Db[TableNameOf(op)]
         after == DbAfter[TableNameOf(op)]
     IN /\ Ids(after) = Ids(before)
        /\ Cardinality(after) = Cardinality(before)
        /\ \A r \in before :
             LET u == SameRow(after, r)
             IN /\ r.id # id => u = r
                /\ \A f \in DOMAIN r \ Updatable(op) : u[f] = r[f]

\* C17: an update changes only the updatable columns (never id, team_id or
\* created_at) of the row whose id matches, and no other row of any table;
\* a successful update_task leaves the matching task with updated_at equal
\* to the current time; create_task returns a task whose updated_at equals
\* its created_at; and no stored task has updated_at earlier than created_at.
C17_UpdatesKeepIdentityAndCreation ==
  [][\A p \in Callers :
       /\ \A op \in {"update_team", "update_member", "update_category", "update_task"} :
            Returns(p, op) => ChangesOnly(op, prim[p].arg.id)
       /\ (Returns(p, "update_task") /\ ret'[p].ok) =>
            \A t \in tasks' : t.id = prim[p].arg.id => t.updated_at = clock
       /\ (Returns(p, "create_task") /\ ret'[p].ok) =>
            ret'[p].val.updated_at = ret'[p].val.created_at
       /\ \A t \in tasks' : t.updated_at >= t.created_at]_vars

\* update_task has succeeded on a task at a later time than its creation
C17_Witness ==
  \E p \in Callers :
    /\ Succeeded(p, "update_task")
    /\ \E t \in tasks :
         /\ t.id = call[p].arg.id
         /\ t.title = call[p].arg.title
         /\ t.updated_at > t.created_at

(***************************************************************************)
(* Exports of existing and of unknown teams.                               *)
(***************************************************************************)
MaxExportCalls == 4

ExportCommands(p) ==
  \/ cmd_create_team(p) \/ cmd_create_member(p) \/ cmd_create_category(p)
  \/ cmd_create_task(p) \/ cmd_export_data(p)

ExportSteps(p) ==
  \/ with_db(p)
  \/ create_team(p) \/ create_member(p) \/ create_category(p) \/ create_task(p)
  \/ select_team(p) \/ get_members(p) \/ get_categories(p) \/ get_tasks(p)

NextExport ==
  \E p \in {1} :
    \/ calls < MaxExportCalls /\ ExportCommands(p) /\ OnExistingTeam(call'[p])
    \/ ExportSteps(p)

SpecExport == Init /\ [][NextExport]_vars

\* what export_data(T) has returned to caller p: an error when T is no
\* team, and otherwise a document of the team row and of T's members,
\* categories and tasks as get_members, get_categories and get_tasks list them
ExportReturned(p) ==
  Returned(p, "export_data") =>
    LET T == call[p].arg
    IN IF T \notin Ids(teams) THEN ~ret[p].ok
       ELSE /\ ret[p].ok
            /\ ret[p].val.parses
            /\ LET doc == ret[p].val.value
               IN /\ doc.team = TeamJson(SameRow(teams, [id |-> T]))
                  /\ \E ms \in SelectMembers(Db, T) :
                       doc.members = JArray(MapSeq(MemberJson, ms))
                  /\ \E cs \in SelectCategories(Db, T) :
                       doc.categories = JArray(MapSeq(CategoryJson, cs))
                  /\ \E ts \in SelectTasks(Db, T) :
                       doc.tasks = JArray(MapSeq(TaskJson, ts))

\* C18: no step of export_data(T) changes a row of any table; export_data
\* returns an error when no team has id T, and otherwise (no other caller
\* interleaving) a document whose members, categories and tasks are the
\* rows of T in get_members, get_categories and get_tasks order.
C18_ExportIsReadOnly ==
  [][\A p \in Callers :
       call'[p].op = "export_data" =>
         /\ DbAfter = Db
         /\ ExportReturned(p)']_vars

\* export_data has returned a document listing two tasks of the team that
\* have different start dates
C18_Witness ==
  \E p \in Callers :
    /\ Succeeded(p, "export_data")
    /\ Len(ret[p].val.value.tasks.items) = 2
    /\ ret[p].val.value.tasks.items[1].start_date.s
         # ret[p].val.value.tasks.items[2].start_date.s

(***************************************************************************)
(* Imports of documents whose entries lack fields.                         *)
(***************************************************************************)
MaxDefaultsCalls == 3

DefaultsCommands(p) ==
  \/ cmd_create_team(p) \/ cmd_import_data(p, HandWritten \cup {Sparse})

DefaultsSteps(p) ==
  \/ with_db(p)
  \/ create_team(p) \/ create_member(p) \/ create_category(p) \/ create_task(p)
  \/ import_delete(p)

NextDefaults ==
  \E p \in {1} :
    \/ calls < MaxDefaultsCalls /\ DefaultsCommands(p) /\ NamesRows(call'[p])
    \/ DefaultsSteps(p)

SpecDefaults == Init /\ [][NextDefaults]_vars

\* the text stored for a field of an entry: the field when it is a string,
\* and the default otherwise
Stored(field, default) == IF field.t = "string" THEN field.s ELSE default

\* the entry import_data is creating a row from
EntryOf(c) ==
  CASE c.stage = "members" -> c.data.members.items[c.i]
    [] c.stage = "categories" -> c.data.categories.items[c.i]
    [] OTHER -> c.data.tasks.items[c.i]

\* C19: import_data stores each entry with every field that is absent or
\* not a string replaced by its default (member name "", role "", color
\* "#4A90D9"; category name "", color "#4A90D9"; task title, description,
\* start_date, end_date "", status "not_started") and every field that is a
\* string unchanged, and such entries do not make the import fail.
C19_ImportDefaultsEachField ==
  [][\A p \in Callers :
       (call[p].op = "import_data" /\ call[p].arg \in Ids(teams)) =>
         LET e == EntryOf(call[p])
         IN /\ Returns(p, "create_member") =>
                 \E m \in members' \ members :
                   /\ members' = members \cup {m}
                   /\ m.team_id = call[p].arg
                   /\ m.name = Stored(e.name, "")
                   /\ m.role = Stored(e.role, "")
                   /\ m.color = Stored(e.color, "#4A90D9")
            /\ Returns(p, "create_category") =>
                 \E c \in categories' \ categories :
                   /\ categories' = categories \cup {c}
                   /\ c.team_id = call[p].arg
                   /\ c.name = Stored(e.name, "")
                   /\ c.color = Stored(e.color, "#4A90D9")
            /\ Returns(p, "create_task") =>
                 \E t \in tasks' \ tasks :
                   /\ tasks' = tasks \cup {t}
                   /\ t.team_id = call[p].arg
                   /\ t.title = Stored(e.title, "")
                   /\ t.description = Stored(e.description, "")
                   /\ t.start_date = Stored(e.start_date, "")
                   /\ t.end_date = Stored(e.end_date, "")
                   /\ t.status = Stored(e.status, "not_started")
            /\ (pc'[p] = "idle" /\ call'[p].json_data.parses) => ret'[p].ok]_vars

\* the import of a document with an entry without fields and an entry with
\* string fields in each array has succeeded, and the team holds one row
\* of defaults and one row of the document's strings in each table
C19_Witness ==
  \E p \in Callers :
    /\ Succeeded(p, "import_data")
    /\ call[p].json_data = Sparse
    /\ LET T == call[p].arg
       IN /\ {<<m.name, m.role, m.color>> : m \in OfTeam(members, T)}
               = {<<"", "", "#4A90D9">>, <<"Zed", "lead", "#123456">>}
          /\ {<<c.name, c.color>> : c \in OfTeam(categories, T)}
               = {<<"", "#4A90D9">>, <<"Ops", "#00FF00">>}
          /\ {<<t.title, t.description, t.start_date, t.end_date, t.status>> :
                t \in OfTeam(tasks, T)}
               = {<<"", "", "", "", "not_started">>,
                  <<"Plan", "d", "2024-01-05", "2024-01-10", "done">>}

\* C20: every stored category has order_index >= 0.
C20_OrderIndexNonNegative ==
  \A c \in categories : c.order_index >= 0

\* the number of entries import_data reads from one top-level field
EntriesOf(data, field) == IF HasArray(data, field) THEN Len(field.items) ELSE 0

\* C21: import_data(T, doc) on an existing team T with a document that
\* parses, whatever its top level is, never returns an error: its delete
\* closure leaves T without members, categories and tasks, a step creates
\* a row of a table only when the document is an object that has that
\* table's array, and it returns Ok(()) with as many rows of T in each
\* table as the array has entries, none when the array is missing or is
\* no array (so none at all for a bare number or an empty object).
C21_MalformedDocumentImports ==
  [][\A p \in Callers :
       (Importing(p) /\ call'[p].json_data.parses) =>
         LET T == call'[p].arg
             data == call'[p].data
         IN /\ pc'[p] = "idle" => ret'[p] = Ok(Unit)
            /\ Returns(p, "import_delete") =>
                 /\ OfTeam(members', T) = {}
                 /\ OfTeam(categories', T) = {}
                 /\ OfTeam(tasks', T) = {}
            /\ Ids(members') \ Ids(members) # {} => HasArray(data, data.members)
            /\ Ids(categories') \ Ids(categories) # {} => HasArray(data, data.categories)
            /\ Ids(tasks') \ Ids(tasks) # {} => HasArray(data, data.tasks)
            /\ pc'[p] = "idle" =>
                 /\ Cardinality(OfTeam(members', T)) = EntriesOf(data, data.members)
                 /\ Cardinality(OfTeam(categories', T))
                      = EntriesOf(data, data.categories)
                 /\ Cardinality(OfTeam(tasks', T)) = EntriesOf(data, data.tasks)]_vars

\* import_data of a bare number or of an empty object has returned Ok(())
\* for the only team, whose rows (the identifiers after the team's were
\* given to them) are gone
C21_Witness ==
  \E p \in Callers :
    /\ Succeeded(p, "import_data")
    /\ call[p].json_data \in {BareNumber, EmptyObject}
    /\ Ids(teams) = {call[p].arg}
    /\ nextId > 2
    /\ members = {} /\ categories = {} /\ tasks = {}

(***************************************************************************)
(* Two callers creating categories at the same time, and nothing else      *)
(* that writes a category.                                                 *)
(***************************************************************************)
MaxOrderCalls == 5

OrderCommands(p) == cmd_create_team(p) \/ cmd_create_category(p)

OrderSteps(p) == with_db(p) \/ create_team(p) \/ create_category(p)

NextOrder ==
  \E p \in Callers :
    \/ calls < MaxOrderCalls /\ OrderCommands(p)
    \/ OrderSteps(p)

SpecOrder == Init /\ [][NextOrder]_vars

\* the order_index values of the categories stored under team_id
OrderIndexes(team_id) == {c.order_index : c \in OfTeam(categories, team_id)}

\* C22: when only create_category writes categories, whatever the
\* interleaving of the callers, the n categories stored under a team_id
\* have the order_index values 0..n-1, each once; two callers that have
\* returned from create_category on the same team hold rows with
\* different order_index values.
C22_OrderIndexesAreDistinctAndContiguous ==
  /\ \A T \in {c.team_id : c \in categories} :
       LET n == Cardinality(OfTeam(categories, T))
       IN /\ OrderIndexes(T) = 0 .. (n - 1)
          /\ \A c1, c2 \in OfTeam(categories, T) :
               c1.order_index = c2.order_index => c1 = c2
  /\ \A p, q \in Callers :
       (/\ p # q
        /\ Succeeded(p, "create_category")
        /\ Succeeded(q, "create_category")
        /\ call[p].arg.team_id = call[q].arg.team_id) =>
          ret[p].val.order_index # ret[q].val.order_index

\* one caller has read the next order_index of a team that has a category
\* and holds the guard before its INSERT, while the other caller's
\* create_category on the same team waits for the guard
C22_Witness ==
  \E p, q \in Callers :
    /\ p # q
    /\ InBody(p, "create_category")
    /\ prim[p].stmt = 2
    /\ prim[p].order_index = 1
    /\ pc[q] = "acquire"
    /\ call[q].op = "create_category"
    /\ call[q].arg.team_id = call[p].arg.team_id
    /\ lock = p

(***************************************************************************)
(* The first accesses to DB: the process from its start, setup and command *)
(* threads dereferencing the cell in any order.                            *)
(***************************************************************************)
MaxLazyCalls == 5

LazyCommands(p) == setup(p) \/ cmd_create_team(p) \/ cmd_get_teams(p)

LazySteps(p) ==
  \/ force(p) \/ init_db(p) \/ poisoned(p)
  \/ with_db(p) \/ init_db_public(p) \/ create_team(p) \/ get_teams(p)

NextLazy ==
  \E p \in Callers :
    \/ calls < MaxLazyCalls /\ LazyCommands(p)
    \/ LazySteps(p)

SpecLazy == Start /\ [][NextLazy]_vars

\* the whole batch of init_db
FullSchema == {Batch[i] : i \in DOMAIN Batch}

\* what holds of the cell, the guard and the schema in every state
LazyState ==
  /\ init_db_runs <= 1
  /\ calls = 0 => init_db_runs = 0 /\ DB = LazyUninit
  /\ DB = LazyReady => init_db_runs = 1 /\ schema = FullSchema
  /\ lock # 0 => DB = LazyReady
  /\ \A p \in Callers :
       pc[p] = "body" => DB = LazyReady /\ schema = FullSchema /\ lock = p

\* what holds of every step that touches the cell
LazyStep ==
  /\ init_db_runs' # init_db_runs =>
       /\ DB = LazyUninit
       /\ \E p \in Callers : pc[p] = "acquire" /\ DB' = LazyRunning(p, 0)
  /\ (DB.state = "running" /\ DB'.state \notin {"running", "ready"}) =>
       /\ DB' = LazyPoisoned
       /\ pc'[DB.by] = "panicked"
       /\ ret' = ret
  /\ DB = LazyReady => DB' = LazyReady /\ schema' = schema
  /\ DB = LazyPoisoned =>
       /\ DB' = LazyPoisoned
       /\ init_db_runs' = init_db_runs
       /\ schema' = schema
       /\ DbAfter = Db
       /\ lock' = 0
       /\ \A p \in Callers :
            /\ pc'[p] # "body"
            /\ pc'[p] = "idle" => pc[p] = "idle"
            /\ pc[p] = "acquire" => pc'[p] \in {"acquire", "panicked"}

\* C23: init_db is entered at most once, and only by a caller's first
\* dereference of DB (not before any command was issued); a caller holds
\* the guard or executes a statement only when that one run has returned
\* the connection and the whole batch is applied; when init_db fails the
\* caller that ran it panics instead of returning, and from then on
\* init_db is never entered again, no caller gets the guard, no command
\* returns and the store does not change.
C23_LazyInitOnce == []LazyState /\ [][LazyStep]_vars

\* the race on the first access: one caller is in the last statement of
\* the only run of init_db while the other caller's command waits in its
\* dereference of DB
C23_Witness ==
  \E p, q \in Callers :
    /\ p # q
    /\ DB = LazyRunning(p, Len(Batch))
    /\ pc[p] = "init_db"
    /\ pc[q] = "acquire"
    /\ init_db_runs = 1
    /\ lock = 0

====
